---- MODULE Spec2Model ----
(***************************************************************************)
(* Model of the GitHub profile generator.                                  *)
(*                                                                         *)
(* Two classes named GitHubProfileGenerator exist in the repository:       *)
(*   "utils" : src/utils/github_stats.py (the one main.py imports)         *)
(*   "root"  : src/github_profile_generator.py                             *)
(* and two scripts compute language percentages:                           *)
(*   src/scripts/generate_languages_chart.py (get_languages_data_no_token) *)
(*   src/scripts/github_api.py               (get_languages_data)          *)
(*                                                                         *)
(* Time is counted in ticks; TicksPerDay ticks make one day.  A timestamp  *)
(* string is a record [kind, t]:                                           *)
(*   "missing" : the key is absent from the dict                           *)
(*   "empty"   : ""                                                        *)
(*   "bad_lo"  : an unparseable string that sorts below every date ("-")   *)
(*   "bad_hi"  : an unparseable string that sorts above every date         *)
(*               ("not-a-date")                                            *)
(*   "utc"     : "YYYY-MM-DDTHH:MM:SSZ", the form the API returns          *)
(*   "naive"   : "YYYY-MM-DDTHH:MM:SS", no offset                          *)
(* with t the instant (in ticks) the date fields denote.                   *)
(***************************************************************************)
EXTENDS Integers, Sequences, FiniteSets

VARIABLES
    pc,              \* "ready_stats" | "ready_lang" | "done"
    op,              \* the function that has run ("none" before)
    repos,           \* input: list of repository dicts
    user_data,       \* input: the user dict
    tz,              \* input: local UTC offset of the machine, in ticks
    language_bytes,  \* input: dict lang -> bytes, as a list in insertion order
    raised,          \* exception that escaped the function ("none" if it returned)
    stats,           \* calculate_stats: the returned dict
    age,             \* _calculate_account_age: the returned int
    last,            \* _get_last_activity: the returned string
    percentages,     \* the percentage dict computed (insertion order)
    result,          \* the sorted percentage list (plotted or returned)
    files,           \* files written so far
    main_languages,  \* create_languages_chart: the folded percentage dict
    json_file,       \* content of github_stats.json once written
    fetch,           \* fetch_repositories: its locals and the requests made
    lf,              \* fetch_language_stats: its locals and the requests made
    run              \* generate_profile: the stages run and their outcome

vars == <<pc, op, repos, user_data, tz, language_bytes, raised, stats, age,
          last, percentages, result, files, main_languages, json_file, fetch,
          lf, run>>

(***************************************************************************)
(* Bounds of the model.                                                    *)
(***************************************************************************)
TicksPerDay == 2
MaxRepos == 2
MaxLangs == 3
MaxBytes == 2
MaxExtra == 1
Scale == 10000

(***************************************************************************)
(* Program constants.                                                      *)
(***************************************************************************)
RecentDays == 30
TopN == 10

Now == 400 * TicksPerDay

Days(d) == d \div TicksPerDay

SeqsUpTo(S, n) == UNION {[1..k -> S] : k \in 0..n}

EmptyDict == [x \in {} |-> 0]

NA == [na |-> TRUE, day |-> 0]

(***************************************************************************)
(* Timestamps.                                                             *)
(***************************************************************************)
Ts(k, t) == [kind |-> k, t |-> t]

UpdatedDeltas ==
    {0, RecentDays * TicksPerDay, RecentDays * TicksPerDay + 1,
     2 * RecentDays * TicksPerDay}

UpdatedVals ==
    {Ts(k, 0) : k \in {"missing", "empty", "bad_lo", "bad_hi"}}
    \cup {Ts(k, Now - d) : k \in {"utc", "naive"}, d \in UpdatedDeltas}

CreatedVals ==
    {Ts(k, 0) : k \in {"missing", "empty", "bad_hi"}}
    \cup {Ts(k, Now - (3 * TicksPerDay + 1)) : k \in {"utc", "naive"}}

TzOffsets == {-1, 0, 1}

\* datetime.fromisoformat(s.replace("Z", "+00:00")) succeeds
Parses(ts) == ts.kind \in {"utc", "naive"}

\* the parsed datetime carries tzinfo
Aware(ts) == ts.kind = "utc"

\* bool(s) for a string that is present
Truthy(ts) == ts.kind \notin {"missing", "empty"}

\* date.strftime("%Y-%m-%d"): the calendar day of the date fields
DateOf(ts) == [na |-> FALSE, day |-> Days(ts.t)]

\* Position of the string in Python's str ordering; x.get(key, "") gives ""
\* for a missing key.
StrKey(ts) ==
    CASE ts.kind \in {"missing", "empty"} -> <<0, 0, 0>>
      [] ts.kind = "bad_lo" -> <<1, 0, 0>>
      [] ts.kind = "naive" -> <<2, ts.t, 0>>
      [] ts.kind = "utc" -> <<2, ts.t, 1>>
      [] ts.kind = "bad_hi" -> <<3, 0, 0>>

StrLess(a, b) ==
    \/ a[1] < b[1]
    \/ a[1] = b[1] /\ a[2] < b[2]
    \/ a[1] = b[1] /\ a[2] = b[2] /\ a[3] < b[3]

(***************************************************************************)
(* Inputs of calculate_stats.                                              *)
(***************************************************************************)
\* the languages of language_colors, in the order of the table
AllNames ==
    <<"Python", "JavaScript", "TypeScript", "Java", "C++", "C", "C#", "Go",
      "Rust", "PHP", "Ruby", "Swift", "Kotlin", "Dart", "HTML", "CSS", "SCSS",
      "Vue", "React", "Angular", "Shell", "Other">>

NoLanguage == "null"

Repo(f, p, l, s, fc, sz, u) ==
    [fork |-> f, private |-> p, language |-> l, stargazers_count |-> s,
     forks_count |-> fc, size |-> sz, updated_at |-> u]

\* repositories that differ in fork flag and timestamp
TimeRepos ==
    {Repo(f, FALSE, "Python", 1, 0, 5, u) : f \in BOOLEAN, u \in UpdatedVals}

\* repositories that differ in the counted fields
CountRepos ==
    {Repo(FALSE, p, l, s, 1, 5, Ts("naive", Now)) :
        p \in BOOLEAN, l \in {NoLanguage, "Python", "JavaScript"}, s \in {0, 3}}

User(c) == [created_at |-> c, followers |-> 3, following |-> 1]

DefaultUser == User(Ts("utc", Now - (3 * TicksPerDay + 1)))

(***************************************************************************)
(* calculate_stats and its helpers.                                        *)
(***************************************************************************)
RECURSIVE SumOver(_, _)
SumOver(s, field) ==
    IF s = <<>> THEN 0 ELSE Head(s)[field] + SumOver(Tail(s), field)

PublicRepos(rs) == Cardinality({i \in DOMAIN rs : ~rs[i].private})

\* filters on the wrong flag
OriginalReposMut(rs) == Cardinality({i \in DOMAIN rs : ~rs[i].private})
OriginalRepos(rs) == Cardinality({i \in DOMAIN rs : ~rs[i].fork})

ForkedRepos(rs) == Cardinality({i \in DOMAIN rs : rs[i].fork})

\* A Counter is the list of its items [key, num] in insertion order.
CounterKeys(c) == {c[i].key : i \in DOMAIN c}

\* c[l] += 1: a new key goes to the end, a known key keeps its place
CounterAdd(c, l) ==
    IF l \in CounterKeys(c)
    THEN [i \in DOMAIN c |->
             IF c[i].key = l THEN [key |-> l, num |-> c[i].num + 1] ELSE c[i]]
    ELSE Append(c, [key |-> l, num |-> 1])

\* Counter(r.get("language") for r in repos if r.get("language"))
RECURSIVE LanguageCounts(_)
LanguageCounts(rs) ==
    IF rs = <<>> THEN <<>>
    ELSE LET rest == LanguageCounts(SubSeq(rs, 1, Len(rs) - 1))
             l == rs[Len(rs)].language
         IN IF l = NoLanguage THEN rest ELSE CounterAdd(rest, l)

\* the comparison of line 152 turned round
UtilsIsRecentInMut(r, w) ==
    LET u == r.updated_at
    IN /\ Truthy(u)
       /\ Parses(u)
       /\ ~Aware(u)
       /\ Days(Now - u.t) >= w
\* utils: the loop body of lines 147-155 for one repository, for a window
\* of w days in the place of the literal 30
UtilsIsRecentIn(r, w) ==
    LET u == r.updated_at
    IN /\ Truthy(u)
       /\ Parses(u)                      \* ValueError: except, continue
       /\ ~Aware(u)                      \* naive - aware: TypeError, continue
       /\ Days(Now - u.t) <= w

UtilsIsRecent(r) == UtilsIsRecentIn(r, RecentDays)

UtilsRecentActivityIn(rs, w) ==
    Cardinality({i \in DOMAIN rs : UtilsIsRecentIn(rs[i], w)})

UtilsRecentActivity(rs) == Cardinality({i \in DOMAIN rs : UtilsIsRecent(rs[i])})

\* root: the exception the filter of lines 160-164 raises on one repository
RootRecentError(r) ==
    LET u == r.updated_at
    IN CASE u.kind = "missing" -> "KeyError"
         [] ~Parses(u) -> "ValueError"
         [] Aware(u) -> "TypeError"      \* aware > naive
         [] OTHER -> "none"

RECURSIVE RootFirstError(_)
RootFirstError(rs) ==
    IF rs = <<>> THEN "none"
    ELSE IF RootRecentError(Head(rs)) # "none" THEN RootRecentError(Head(rs))
    ELSE RootFirstError(Tail(rs))

\* root: datetime.now() is local time
RootIsRecentIn(r, z, w) == r.updated_at.t > (Now + z) - w * TicksPerDay

RootIsRecent(r, z) == RootIsRecentIn(r, z, RecentDays)

RootRecentActivityIn(rs, z, w) ==
    Cardinality({i \in DOMAIN rs : RootIsRecentIn(rs[i], z, w)})

RootRecentActivity(rs, z) ==
    Cardinality({i \in DOMAIN rs : RootIsRecent(rs[i], z)})

UtilsAccountAge(c) ==
    IF ~Truthy(c) THEN 0
    ELSE IF ~Parses(c) THEN 0
    ELSE IF Aware(c) THEN 0              \* naive - aware: TypeError, except
    ELSE Days(Now - c.t)

RootAccountAge(c, z) ==
    IF c.kind = "missing" THEN 0         \* .get default "": ValueError
    ELSE IF ~Parses(c) THEN 0
    ELSE Days((Now + z) - c.t)

\* max(repos, key=lambda x: x.get("updated_at", "")): the first maximal one
LatestIdx(rs) ==
    CHOOSE i \in DOMAIN rs :
        /\ \A j \in DOMAIN rs :
              ~StrLess(StrKey(rs[i].updated_at), StrKey(rs[j].updated_at))
        /\ \A j \in 1..(i - 1) :
              StrLess(StrKey(rs[j].updated_at), StrKey(rs[i].updated_at))

LastActivity(rs) ==
    IF rs = <<>> THEN NA
    ELSE LET u == rs[LatestIdx(rs)].updated_at
         IN IF u.kind = "missing" THEN NA        \* KeyError
            ELSE IF ~Parses(u) THEN NA           \* ValueError
            ELSE DateOf(u)

UtilsStats(rs, ud) ==
    [user_data |-> ud,
     total_repos |-> Len(rs),
     public_repos |-> PublicRepos(rs),
     original_repos |-> OriginalRepos(rs),
     forked_repos |-> ForkedRepos(rs),
     total_stars |-> SumOver(rs, "stargazers_count"),
     total_forks |-> SumOver(rs, "forks_count"),
     total_size_kb |-> SumOver(rs, "size"),
     language_counts |-> LanguageCounts(rs),
     recent_activity |-> UtilsRecentActivity(rs),
     followers |-> ud.followers,
     following |-> ud.following,
     account_age_days |-> UtilsAccountAge(ud.created_at),
     last_active |-> LastActivity(rs)]

RootStats(rs, ud, z) ==
    [user_data |-> ud,
     total_repos |-> Len(rs),
     public_repos |-> PublicRepos(rs),
     original_repos |-> OriginalRepos(rs),
     forked_repos |-> ForkedRepos(rs),
     total_stars |-> SumOver(rs, "stargazers_count"),
     total_forks |-> SumOver(rs, "forks_count"),
     total_size_kb |-> SumOver(rs, "size"),
     language_counts |-> LanguageCounts(rs),
     recent_activity |-> RootRecentActivity(rs, z),
     followers |-> ud.followers,
     following |-> ud.following,
     account_age |-> RootAccountAge(ud.created_at, z),
     last_active |-> LastActivity(rs)]

(***************************************************************************)
(* Initial states: the inputs of the statistics functions.                 *)
(***************************************************************************)
InitStats ==
    /\ pc = "ready_stats"
    /\ op = "none"
    /\ \/ /\ repos \in SeqsUpTo(TimeRepos, MaxRepos)
          /\ user_data = DefaultUser
          /\ tz = 0
       \/ /\ repos \in SeqsUpTo(TimeRepos, 1)
          /\ user_data \in {User(c) : c \in CreatedVals}
          /\ tz \in TzOffsets
       \/ /\ repos \in SeqsUpTo(CountRepos, MaxRepos)
          /\ user_data = DefaultUser
          /\ tz = 0
    /\ language_bytes = <<>>
    /\ raised = "none"
    /\ stats = EmptyDict
    /\ age = 0
    /\ last = NA
    /\ percentages = <<>>
    /\ result = <<>>
    /\ files = {}
    /\ main_languages = <<>>
    /\ json_file = EmptyDict
    /\ fetch = EmptyDict
    /\ lf = EmptyDict
    /\ run = EmptyDict

Finish(name) ==
    /\ pc' = "done"
    /\ op' = name
    /\ UNCHANGED <<repos, user_data, tz, language_bytes>>
    /\ UNCHANGED <<main_languages, json_file, fetch, lf, run>>

UtilsCalculateStats ==
    /\ pc = "ready_stats"
    /\ Finish("utils.calculate_stats")
    /\ raised' = "none"
    /\ stats' = UtilsStats(repos, user_data)
    /\ UNCHANGED <<age, last, percentages, result, files>>

RootCalculateStats ==
    /\ pc = "ready_stats"
    /\ Finish("root.calculate_stats")
    /\ IF repos = <<>>
       THEN raised' = "none" /\ stats' = EmptyDict
       ELSE IF RootFirstError(repos) # "none"
       THEN raised' = RootFirstError(repos) /\ stats' = EmptyDict
       ELSE raised' = "none" /\ stats' = RootStats(repos, user_data, tz)
    /\ UNCHANGED <<age, last, percentages, result, files>>

UtilsCalculateAccountAge ==
    /\ pc = "ready_stats"
    /\ Finish("utils._calculate_account_age")
    /\ raised' = "none"
    /\ age' = UtilsAccountAge(user_data.created_at)
    /\ UNCHANGED <<stats, last, percentages, result, files>>

RootCalculateAccountAge ==
    /\ pc = "ready_stats"
    /\ Finish("root._calculate_account_age")
    /\ raised' = "none"
    /\ age' = RootAccountAge(user_data.created_at, tz)
    /\ UNCHANGED <<stats, last, percentages, result, files>>

UtilsGetLastActivity ==
    /\ pc = "ready_stats"
    /\ Finish("utils._get_last_activity")
    /\ raised' = "none"
    /\ last' = LastActivity(repos)
    /\ UNCHANGED <<stats, age, percentages, result, files>>

RootGetLastActivity ==
    /\ pc = "ready_stats"
    /\ Finish("root._get_last_activity")
    /\ raised' = "none"
    /\ last' = LastActivity(repos)
    /\ UNCHANGED <<stats, age, percentages, result, files>>

(***************************************************************************)
(* save_stats_json of the root class: the snapshot of calculate_stats      *)
(* written as a JSON document, and the document parsed back.               *)
(***************************************************************************)
Username == "octocat"

JNumber(k, n) == [key |-> k, kind |-> "number", num |-> n, str |-> "", obj |-> <<>>]
JString(k, v) == [key |-> k, kind |-> "string", num |-> 0, str |-> v, obj |-> <<>>]
JObject(k, o) == [key |-> k, kind |-> "object", num |-> 0, str |-> "", obj |-> o]

\* the members json.dump writes for dict(counter), one per key in the
\* Counter's order; parsing does not keep the order
DictMembers(d) == [i \in DOMAIN d |-> [key |-> d[i].key, num |-> d[i].num]]

\* total_forks taken from total_stars
StatsForJsonMut(st, z) ==
    <<JString("username", Username),
      JString("generated_at", <<"isoformat", Now + z>>),
      JNumber("total_repos", st["total_repos"]),
      JNumber("total_stars", st["total_stars"]),
      JNumber("total_forks", st["total_stars"]),
      JNumber("followers", st["followers"]),
      JNumber("following", st["following"]),
      JObject("language_counts", DictMembers(st["language_counts"])),
      JNumber("account_age_days", st["account_age"])>>
\* the text json.dump writes for stats_for_json of lines 440-450
StatsForJson(st, z) ==
    <<JString("username", Username),
      JString("generated_at", <<"isoformat", Now + z>>),
      JNumber("total_repos", st["total_repos"]),
      JNumber("total_stars", st["total_stars"]),
      JNumber("total_forks", st["total_forks"]),
      JNumber("followers", st["followers"]),
      JNumber("following", st["following"]),
      JObject("language_counts", DictMembers(st["language_counts"])),
      JNumber("account_age_days", st["account_age"])>>

\* the keys stats_for_json reads from the snapshot
JsonKeys ==
    {"total_repos", "total_stars", "total_forks", "followers", "following",
     "language_counts", "account_age"}

LastWith(members, k) ==
    CHOOSE i \in DOMAIN members :
        /\ members[i].key = k
        /\ \A j \in DOMAIN members : members[j].key = k => j <= i

\* json.load of a JSON object of numbers
ObjLoad(members) ==
    [k \in {members[i].key : i \in DOMAIN members} |->
        members[LastWith(members, k)].num]

\* json.load of the document
JsonLoad(doc) ==
    [k \in {doc[i].key : i \in DOMAIN doc} |->
        LET m == doc[LastWith(doc, k)]
        IN CASE m.kind = "number" -> m.num
             [] m.kind = "string" -> m.str
             [] m.kind = "object" -> ObjLoad(m.obj)]

RootSaveStatsJson ==
    /\ pc = "done"
    /\ op = "root.calculate_stats"
    /\ raised = "none"
    /\ pc' = "saved"
    /\ op' = "root.save_stats_json"
    /\ IF JsonKeys \subseteq DOMAIN stats
       THEN /\ raised' = "none"
            /\ json_file' = StatsForJson(stats, tz)
            /\ files' = files \cup {"github_stats.json"}
       ELSE /\ raised' = "KeyError"      \* stats['total_repos'] on {}
            /\ UNCHANGED <<json_file, files>>
    /\ UNCHANGED <<repos, user_data, tz, language_bytes, stats, age, last,
                   percentages, result, main_languages, fetch, lf, run>>

\* create_activity_dashboard of the utils class on the dict calculate_stats
\* returned: the svg is saved, then the png; the whole body is inside
\* try/except Exception, which logs the error and returns
UtilsCreateActivityDashboard ==
    /\ pc = "done"
    /\ op = "utils.calculate_stats"
    /\ pc' = "drawn"
    /\ op' = "utils.create_activity_dashboard"
    /\ raised' = "none"
    /\ \E fail \in {"none", "svg", "png"} :      \* the savefig that raises
          files' = files \cup
              (IF ~({"original_repos", "forked_repos", "followers",
                    "following", "total_stars", "total_forks",
                    "account_age_days", "total_repos", "total_size_kb",
                    "recent_activity", "last_active"} \subseteq DOMAIN stats)
               THEN {}                           \* KeyError, logged
               ELSE IF fail = "svg" THEN {}
               ELSE IF fail = "png" THEN {"output/github_dashboard.svg"}
               ELSE {"output/github_dashboard.svg",
                     "output/github_dashboard.png"})
    /\ UNCHANGED <<repos, user_data, tz, language_bytes, stats, age, last,
                   percentages, result, main_languages, json_file, fetch, lf,
                   run>>

NextStats ==
    \/ UtilsCalculateStats
    \/ RootCalculateStats
    \/ UtilsCalculateAccountAge
    \/ RootCalculateAccountAge
    \/ UtilsGetLastActivity
    \/ RootGetLastActivity
    \/ RootSaveStatsJson
    \/ UtilsCreateActivityDashboard

SpecStats == InitStats /\ [][NextStats]_vars

(***************************************************************************)
(* Language percentages.  A percentage is kept in units of 1/Scale percent *)
(* (rounded to the nearest unit), so 80.0 is 80 * Scale.                   *)
(***************************************************************************)
\* keys of language_bytes; "JS" is not a key of language_colors
SmallNames == {"Python", "JS", "CSS", "Other"}

ByteVals == (0..MaxBytes) \cup {200, 800}

Entry(l, b) == [lang |-> l, bytes |-> b]

\* a dict has each key once
IsDict(s) == \A i, j \in DOMAIN s : s[i].lang = s[j].lang => i = j

SmallMaps ==
    {s \in SeqsUpTo({Entry(l, b) : l \in SmallNames, b \in ByteVals}, MaxLangs) :
        IsDict(s)}

\* more languages than the chart shows
WideMaps ==
    UNION {{[i \in 1..n |-> Entry(AllNames[i], b[i])] : b \in [1..n -> {1, 2}]} :
              n \in (TopN + 1)..(TopN + MaxExtra)}

RECURSIVE TotalBytes(_)
TotalBytes(lb) ==
    IF lb = <<>> THEN 0 ELSE Head(lb).bytes + TotalBytes(Tail(lb))

\* integer division before the multiplication
PctMut(b, total) == (b \div total) * 100 * Scale
\* (bytes_count / total_bytes) * 100
Pct(b, total) == (2 * 100 * Scale * b + total) \div (2 * total)

Percentages(lb) ==
    [i \in DOMAIN lb |->
        [lang |-> lb[i].lang, pct |-> Pct(lb[i].bytes, TotalBytes(lb))]]

Front(s) == SubSeq(s, 1, Len(s) - 1)

\* not stable: an equal element goes before the ones already placed
InsertDescMut(sorted, x) ==
    LET k == Cardinality({i \in DOMAIN sorted : sorted[i].pct > x.pct})
    IN SubSeq(sorted, 1, k) \o <<x>> \o SubSeq(sorted, k + 1, Len(sorted))
\* x goes after every element that is not smaller (stable, reverse=True)
InsertDesc(sorted, x) ==
    LET k == Cardinality({i \in DOMAIN sorted : sorted[i].pct >= x.pct})
    IN SubSeq(sorted, 1, k) \o <<x>> \o SubSeq(sorted, k + 1, Len(sorted))

\* sorted(items, key=lambda x: x[1], reverse=True)
RECURSIVE SortDesc(_)
SortDesc(s) ==
    IF s = <<>> THEN <<>> ELSE InsertDesc(SortDesc(Front(s)), s[Len(s)])

\* s[:n]
Take(s, n) == SubSeq(s, 1, IF Len(s) < n THEN Len(s) ELSE n)

InitLang ==
    /\ pc = "ready_lang"
    /\ op = "none"
    /\ repos = <<>>
    /\ user_data = DefaultUser
    /\ tz = 0
    /\ language_bytes \in SmallMaps \cup WideMaps
    /\ raised = "none"
    /\ stats = EmptyDict
    /\ age = 0
    /\ last = NA
    /\ percentages = <<>>
    /\ result = <<>>
    /\ files = {}
    /\ main_languages = <<>>
    /\ json_file = EmptyDict
    /\ fetch = EmptyDict
    /\ lf = EmptyDict
    /\ run = EmptyDict

\* utils: _get_color gives the table's colour of a listed language; for any
\* other it calls as_hex() on one colour of the seaborn palette, a tuple,
\* which has no such method
UtilsGetColor(l) ==
    IF \E i \in DOMAIN AllNames : AllNames[i] = l
    THEN "color"
    ELSE "AttributeError"

\* the body both create_language_chart methods share; unlisted are the
\* languages whose colour lookup raises.  The colours are looked up once
\* the sorted list is cut to TopN, before anything is saved
CreateLanguageChart(name, written, unlisted) ==
    /\ pc = "ready_lang"
    /\ Finish(name)
    /\ IF language_bytes = <<>>
       THEN /\ raised' = "none"                  \* warning, return
            /\ UNCHANGED <<percentages, result, files>>
       ELSE IF TotalBytes(language_bytes) = 0
       THEN /\ raised' = "ZeroDivisionError"
            /\ UNCHANGED <<percentages, result, files>>
       ELSE LET sorted_langs == Take(SortDesc(Percentages(language_bytes)), TopN)
            IN /\ percentages' = Percentages(language_bytes)
               /\ result' = sorted_langs
               /\ IF \E i \in DOMAIN sorted_langs :
                        sorted_langs[i].lang \in unlisted
                  THEN /\ raised' = "AttributeError"
                       /\ UNCHANGED files
                  ELSE /\ raised' = "none"
                       /\ files' = files \cup written
    /\ UNCHANGED <<stats, age, last>>

UtilsCreateLanguageChart ==
    CreateLanguageChart("utils.create_language_chart",
                        {"output/language_distribution.svg",
                         "output/language_distribution.png"},
                        {language_bytes[i].lang : i \in DOMAIN language_bytes}
                            \ {l \in {language_bytes[i].lang :
                                          i \in DOMAIN language_bytes} :
                                   UtilsGetColor(l) = "color"})

RootCreateLanguageChart ==
    CreateLanguageChart("root.create_language_chart",
                        {"language_distribution.svg",
                         "language_distribution.png"},
                        {})      \* language_colors.get(lang, default)

\* generate_languages_chart.py, lines 128-136
NoTokenPercentages ==
    /\ pc = "ready_lang"
    /\ Finish("get_languages_data_no_token")
    /\ raised' = "none"
    /\ IF TotalBytes(language_bytes) = 0
       THEN UNCHANGED <<percentages, result>>    \* return {}
       ELSE /\ percentages' = Percentages(language_bytes)
            /\ result' = SortDesc(Percentages(language_bytes))
    /\ UNCHANGED <<stats, age, last, files>>

\* github_api.py, lines 36-50: the division is inside try/except Exception
GithubApiPercentages ==
    /\ pc = "ready_lang"
    /\ Finish("get_languages_data")
    /\ raised' = "none"
    /\ IF language_bytes # <<>> /\ TotalBytes(language_bytes) = 0
       THEN UNCHANGED <<percentages, result>>    \* ZeroDivisionError: return {}
       ELSE /\ percentages' = Percentages(language_bytes)
            /\ result' = SortDesc(Percentages(language_bytes))
    /\ UNCHANGED <<stats, age, last, files>>

(***************************************************************************)
(* create_languages_chart of generate_languages_chart.py: the percentages  *)
(* of get_languages_data_no_token (or the sample data), with the small     *)
(* languages folded into "Other".                                          *)
(***************************************************************************)
PctEntry(l, p) == [lang |-> l, pct |-> p]

\* the languages_data used when the fetch gave nothing
SampleData ==
    <<PctEntry("Python", 45 * Scale), PctEntry("JavaScript", 25 * Scale),
      PctEntry("HTML", 15 * Scale), PctEntry("CSS", 8 * Scale),
      PctEntry("Java", 7 * Scale)>>

\* 1.5 percent
FoldThreshold == (15 * Scale) \div 10

IsMain(e, t) == e.pct >= t

\* other_percent = percent instead of +=
RECURSIVE OtherPercentMut(_, _)
OtherPercentMut(data, t) ==
    IF data = <<>> THEN 0
    ELSE IF ~IsMain(data[Len(data)], t) THEN data[Len(data)].pct
    ELSE OtherPercentMut(Front(data), t)
\* other_percent after the loop of lines 161-165
RECURSIVE OtherPercent(_, _)
OtherPercent(data, t) ==
    IF data = <<>> THEN 0
    ELSE (IF IsMain(Head(data), t) THEN 0 ELSE Head(data).pct)
         + OtherPercent(Tail(data), t)

\* d[key] = value on a dict kept in insertion order
DictSet(d, key, value) ==
    IF \E i \in DOMAIN d : d[i].lang = key
    THEN [i \in DOMAIN d |->
             IF d[i].lang = key THEN PctEntry(key, value) ELSE d[i]]
    ELSE Append(d, PctEntry(key, value))

\* main_languages after lines 158-168, for threshold t
Fold(data, t) ==
    LET main == SelectSeq(data, LAMBDA e : IsMain(e, t))
    IN IF OtherPercent(data, t) > 0
       THEN DictSet(main, "Other", OtherPercent(data, t))
       ELSE main

CreateLanguagesChart ==
    /\ pc = "ready_lang"
    /\ pc' = "done"
    /\ op' = "create_languages_chart"
    /\ raised' = "none"
    /\ LET fetched == IF TotalBytes(language_bytes) = 0 THEN <<>>
                      ELSE SortDesc(Percentages(language_bytes))
           data == IF fetched = <<>> THEN SampleData ELSE fetched
       IN /\ percentages' = IF fetched = <<>> THEN <<>>
                            ELSE Percentages(language_bytes)
          /\ result' = data
          /\ main_languages' = Fold(data, FoldThreshold)
    /\ files' = files \cup {"charts/languages_chart.png"}
    /\ UNCHANGED <<repos, user_data, tz, language_bytes, stats, age, last,
                   json_file, fetch, lf, run>>

NextLang ==
    \/ UtilsCreateLanguageChart
    \/ RootCreateLanguageChart
    \/ NoTokenPercentages
    \/ GithubApiPercentages
    \/ CreateLanguagesChart

SpecLang == InitLang /\ [][NextLang]_vars

(***************************************************************************)
(* fetch_repositories: the pagination loop, the same in both classes.  The *)
(* server holds fetch.total repositories, numbered in the order it lists   *)
(* them; the request for page fetch.fail_at fails (0: none does).          *)
(***************************************************************************)
PerPage == 100

MaxFullPages == 2

Min(a, b) == IF a < b THEN a ELSE b

\* the list the server answers for page k of n repositories
ServerPage(n, k) ==
    LET first == (k - 1) * PerPage
        len == IF n > first THEN Min(PerPage, n - first) ELSE 0
    IN [i \in 1..len |-> first + i]

Request(p) == [page |-> p, per_page |-> PerPage, sort |-> "updated"]

\* break on a page that is not longer than per_page
MorePagesMut(page_repos) == ~(Len(page_repos) <= PerPage)
\* the loop goes on after a page unless len(page_repos) < per_page
MorePages(page_repos) == ~(Len(page_repos) < PerPage)

\* the pages fetched so far thrown away on a failure
AfterFailureMut(rs) == <<>>
\* except RequestException: log, break; repos is returned as it is
AfterFailure(rs) == rs

FetchClasses == {"utils", "root"}

InitFetch ==
    /\ pc = "fetch_loop"
    /\ op \in {c \o ".fetch_repositories" : c \in FetchClasses}
    /\ fetch \in {[total |-> n, fail_at |-> f, page |-> 1, requests |-> <<>>,
                   repos |-> <<>>, failed |-> 0] :
                     n \in 0..(MaxFullPages * PerPage + 1),
                     f \in 0..(MaxFullPages + 1)}
    /\ repos = <<>>
    /\ user_data = DefaultUser
    /\ tz = 0
    /\ language_bytes = <<>>
    /\ raised = "none"
    /\ stats = EmptyDict
    /\ age = 0
    /\ last = NA
    /\ percentages = <<>>
    /\ result = <<>>
    /\ files = {}
    /\ main_languages = <<>>
    /\ json_file = EmptyDict
    /\ lf = EmptyDict
    /\ run = EmptyDict

FetchIdle ==
    UNCHANGED <<op, repos, user_data, tz, language_bytes, raised, stats, age,
                last, percentages, result, files, main_languages, json_file,
                lf, run>>

\* one turn of the loop whose request succeeds
FetchPageOk ==
    /\ pc = "fetch_loop"
    /\ fetch.page # fetch.fail_at
    /\ LET page_repos == ServerPage(fetch.total, fetch.page)
           sent == Append(fetch.requests, Request(fetch.page))
       IN IF page_repos = <<>>
          THEN /\ fetch' = [fetch EXCEPT !.requests = sent]
               /\ pc' = "fetch_done"
          ELSE /\ fetch' = [fetch EXCEPT !.requests = sent,
                                         !.repos = @ \o page_repos,
                                         !.page = @ + 1]
               /\ pc' = IF MorePages(page_repos) THEN "fetch_loop"
                        ELSE "fetch_done"
    /\ FetchIdle

\* one turn of the loop whose request raises RequestException
FetchPageFail ==
    /\ pc = "fetch_loop"
    /\ fetch.page = fetch.fail_at
    /\ fetch' = [fetch EXCEPT !.requests = Append(@, Request(fetch.page)),
                              !.repos = AfterFailure(@),
                              !.failed = fetch.page]
    /\ pc' = "fetch_done"
    /\ FetchIdle

NextFetch ==
    \/ FetchPageOk
    \/ FetchPageFail

SpecFetch == InitFetch /\ [][NextFetch]_vars

\* the loop is the only thing running: a turn that can be taken is taken
SpecFetchFair == SpecFetch /\ WF_vars(NextFetch)

(***************************************************************************)
(* fetch_language_stats: one languages request per non-fork repository,    *)
(* the same loop in both classes.  Each repository of lf.repos carries its *)
(* fork flag and what the server does with its languages request.          *)
(***************************************************************************)
MaxLfRepos == 3

\* what a languages request does: status 200, another status, or a
\* RequestException
Outcomes == {"ok", "non200", "error"}

\* the bodies the server holds
LangBodies ==
    {<<Entry("Python", 1)>>, <<Entry("Python", 2), Entry("JavaScript", 1)>>}

LfRepo(f, o, b) == [fork |-> f, outcome |-> o, langs |-> b]

LfRepos == {LfRepo(f, o, b) : f \in BOOLEAN, o \in Outcomes, b \in LangBodies}

\* language_bytes.get(lang, 0)
GetBytes(d, l) ==
    IF \E i \in DOMAIN d : d[i].lang = l
    THEN d[CHOOSE i \in DOMAIN d : d[i].lang = l].bytes
    ELSE 0

\* language_bytes[lang] = language_bytes.get(lang, 0) + b
AddBytes(d, l, b) ==
    IF \E i \in DOMAIN d : d[i].lang = l
    THEN [i \in DOMAIN d |->
             IF d[i].lang = l THEN Entry(l, d[i].bytes + b) ELSE d[i]]
    ELSE Append(d, Entry(l, b))

\* the inner loop over langs.items()
RECURSIVE AddAll(_, _)
AddAll(d, langs) ==
    IF langs = <<>> THEN d
    ELSE AddAll(AddBytes(d, Head(langs).lang, Head(langs).bytes), Tail(langs))

\* every answered request counted, whatever its status
IsStatus200Mut(o) == o # "error"
\* if response.status_code == 200
IsStatus200(o) == o = "ok"

\* the batch given up at the first failed request
IndexAfterErrorMut(i, n) == n + 1
\* except RequestException: log a warning, go on with the next repository
IndexAfterError(i, n) == i + 1

InitLangFetch ==
    /\ pc = "lf_loop"
    /\ op \in {"utils.fetch_language_stats", "root.fetch_language_stats"}
    /\ lf \in {[repos |-> rs, i |-> 1, requests |-> <<>>] :
                  rs \in SeqsUpTo(LfRepos, MaxLfRepos)}
    /\ language_bytes = <<>>
    /\ repos = <<>>
    /\ user_data = DefaultUser
    /\ tz = 0
    /\ raised = "none"
    /\ stats = EmptyDict
    /\ age = 0
    /\ last = NA
    /\ percentages = <<>>
    /\ result = <<>>
    /\ files = {}
    /\ main_languages = <<>>
    /\ json_file = EmptyDict
    /\ fetch = EmptyDict
    /\ run = EmptyDict

LfIdle ==
    UNCHANGED <<op, repos, user_data, tz, raised, stats, age, last,
                percentages, result, files, main_languages, json_file,
                fetch, run>>

LfInLoop == pc = "lf_loop" /\ lf.i <= Len(lf.repos)

\* if repo.get('fork', False): continue
LfSkipFork ==
    /\ LfInLoop
    /\ lf.repos[lf.i].fork
    /\ lf' = [lf EXCEPT !.i = @ + 1]
    /\ UNCHANGED <<pc, language_bytes>>
    /\ LfIdle

\* the request is answered: the body is added when the status is 200
LfRequestAnswered ==
    /\ LfInLoop
    /\ ~lf.repos[lf.i].fork
    /\ lf.repos[lf.i].outcome # "error"
    /\ lf' = [lf EXCEPT !.i = @ + 1, !.requests = Append(@, lf.i)]
    /\ language_bytes' =
          IF IsStatus200(lf.repos[lf.i].outcome)
          THEN AddAll(language_bytes, lf.repos[lf.i].langs)
          ELSE language_bytes
    /\ UNCHANGED pc
    /\ LfIdle

\* the request raises RequestException
LfRequestError ==
    /\ LfInLoop
    /\ ~lf.repos[lf.i].fork
    /\ lf.repos[lf.i].outcome = "error"
    /\ lf' = [lf EXCEPT !.i = IndexAfterError(lf.i, Len(lf.repos)),
                        !.requests = Append(@, lf.i)]
    /\ UNCHANGED <<pc, language_bytes>>
    /\ LfIdle

\* return language_bytes
LfReturn ==
    /\ pc = "lf_loop"
    /\ lf.i > Len(lf.repos)
    /\ pc' = "lf_done"
    /\ UNCHANGED <<lf, language_bytes>>
    /\ LfIdle

NextLangFetch ==
    \/ LfSkipFork
    \/ LfRequestAnswered
    \/ LfRequestError
    \/ LfReturn

SpecLangFetch == InitLangFetch /\ [][NextLangFetch]_vars

(***************************************************************************)
(* generate_profile of the root class.  run holds what the outside does    *)
(* (whether the user and the repository requests succeed, the server's     *)
(* repositories, the answer to each languages request, the file whose      *)
(* write fails) and the events of the run so far: stages started,          *)
(* requests sent, files written, lines logged.                             *)
(***************************************************************************)
LogFile == "github_stats.log"

LanguageChartFiles == <<"language_distribution.svg", "language_distribution.png">>

DashboardFiles == <<"github_dashboard.svg", "github_dashboard.png">>

ReadmeFile == "README.md"

JsonFile == "github_stats.json"

Range(q) == {q[i] : i \in DOMAIN q}

ReportFiles ==
    Range(LanguageChartFiles) \cup Range(DashboardFiles)
        \cup {ReadmeFile, JsonFile}

Ev(k, v) == [k |-> k, v |-> v]

\* a logging call: a line appended to the log file
LogLine(level) == Ev("log", level)

\* the body of every languages request that is answered
PfBody == <<Entry("Python", 1)>>

PfRepos ==
    {Repo(f, FALSE, "Python", 1, 0, 5, Ts(k, Now)) :
        f \in BOOLEAN, k \in {"utc", "naive"}}

\* fetch_language_stats on the repositories 1..i: the bytes collected and
\* the events of the loop
RECURSIVE PfLangLoop(_, _, _)
PfLangLoop(rs, outs, i) ==
    IF i = 0 THEN [bytes |-> <<>>, events |-> <<>>]
    ELSE LET prev == PfLangLoop(rs, outs, i - 1)
         IN IF rs[i].fork THEN prev
            ELSE [bytes |-> IF IsStatus200(outs[i])
                            THEN AddAll(prev.bytes, PfBody)
                            ELSE prev.bytes,
                  events |-> prev.events \o <<Ev("request", "languages")>>
                             \o (IF outs[i] = "error"
                                 THEN <<LogLine("warning")>> ELSE <<>>)]

\* the files of names written before the write of file fail raises
RECURSIVE WriteFiles(_, _)
WriteFiles(names, fail) ==
    IF names = <<>> \/ Head(names) = fail THEN <<>>
    ELSE <<Head(names)>> \o WriteFiles(Tail(names), fail)

WriteEvents(names) == [i \in DOMAIN names |-> Ev("write", names[i])]

\* if not repos: log, return left out
ReposFailFastMut(rs) == FALSE
\* if not repos: log, return
ReposFailFast(rs) == rs = <<>>

\* the exception swallowed after logging
PropagatedMut(e) == "none"
\* except Exception as e: logging.error(...); raise
Propagated(e) == e

\* OUTPUT_DIR of utils/github_stats.py
OutputDir == "output"

\* the files the utils class writes: os.path.join(OUTPUT_DIR, name)
UtilsOutputFiles ==
    {"output/github_stats.log", "output/language_distribution.svg",
     "output/language_distribution.png", "output/github_dashboard.svg",
     "output/github_dashboard.png"}

\* os.path.dirname of a path the programs write, "." for a bare file name
DirOf(f) ==
    IF f \in UtilsOutputFiles THEN OutputDir
    ELSE IF f = "charts/languages_chart.png" THEN "charts"
    ELSE "."

\* the local images the README text of create_readme_content refers to
ReadmeReferences == {"github_dashboard.svg", "language_distribution.svg"}

InitProfile ==
    /\ pc = "pf_user"
    /\ op = "root.generate_profile"
    /\ \E rs \in SeqsUpTo(PfRepos, MaxRepos) :
          run \in {[user_ok |-> u, repos_ok |-> r, server |-> rs,
                    outcomes |-> o, io_fail |-> f,
                    events |-> <<LogLine("info")>>,
                    stage_error |-> "none", outcome |-> "running"] :
                      u \in BOOLEAN, r \in BOOLEAN,
                      o \in [DOMAIN rs -> Outcomes],
                      f \in ReportFiles \cup {"none"}}
    /\ files = {LogFile}
    /\ repos = <<>>
    /\ user_data = EmptyDict
    /\ tz = 0
    /\ language_bytes = <<>>
    /\ raised = "none"
    /\ stats = EmptyDict
    /\ age = 0
    /\ last = NA
    /\ percentages = <<>>
    /\ result = <<>>
    /\ main_languages = <<>>
    /\ json_file = EmptyDict
    /\ fetch = EmptyDict
    /\ lf = EmptyDict

PfIdle ==
    UNCHANGED <<op, tz, age, last, percentages, result, main_languages,
                fetch, lf>>

\* the language chart rendered before the language bytes are fetched
NextStageMut(at) ==
    CASE at = "pf_user" -> "pf_repos"
      [] at = "pf_repos" -> "pf_stats"
      [] at = "pf_stats" -> "pf_chart"
      [] at = "pf_chart" -> "pf_langs"
      [] at = "pf_langs" -> "pf_dashboard"
      [] at = "pf_dashboard" -> "pf_readme"
      [] at = "pf_readme" -> "pf_json"
\* the statement of generate_profile that follows a stage
NextStage(at) ==
    CASE at = "pf_user" -> "pf_repos"
      [] at = "pf_repos" -> "pf_stats"
      [] at = "pf_stats" -> "pf_langs"
      [] at = "pf_langs" -> "pf_chart"
      [] at = "pf_chart" -> "pf_dashboard"
      [] at = "pf_dashboard" -> "pf_readme"
      [] at = "pf_readme" -> "pf_json"

\* the stage is over and the next one begins
PfContinue(evs) ==
    /\ pc' = NextStage(pc)
    /\ run' = [run EXCEPT !.events = @ \o evs]
    /\ UNCHANGED raised

\* return from generate_profile
PfReturn(evs) ==
    /\ pc' = "pf_done"
    /\ run' = [run EXCEPT !.events = @ \o evs, !.outcome = "returned"]
    /\ UNCHANGED raised

\* the stage raises e: the handler of lines 499-501
PfRaise(e, evs) ==
    /\ pc' = "pf_done"
    /\ run' = [run EXCEPT !.events = @ \o evs \o <<LogLine("error")>>,
                          !.stage_error = e,
                          !.outcome = IF Propagated(e) = "none"
                                      THEN "returned" ELSE "raised"]
    /\ raised' = Propagated(e)

\* a stage that writes names: all written, or those before the failing one
\* and OSError
PfWriteStage(stage, names, done) ==
    LET written == WriteFiles(names, run.io_fail)
        evs == <<Ev("stage", stage)>> \o WriteEvents(written)
    IN /\ files' = files \cup Range(written)
       /\ IF written = names
          THEN PfContinue(evs \o done)
          ELSE PfRaise("OSError", evs)

\* lines 460-466: user_data = self.fetch_user_data(); if not user_data: return
PfFetchUser ==
    /\ pc = "pf_user"
    /\ LET evs == <<LogLine("info"), Ev("stage", "fetch_user"),
                    Ev("request", "user")>>
       IN IF run.user_ok
          THEN /\ user_data' = DefaultUser
               /\ PfContinue(evs \o <<LogLine("info")>>)
          ELSE /\ user_data' = EmptyDict
               /\ PfReturn(evs \o <<LogLine("error"), LogLine("error")>>)
    /\ UNCHANGED <<repos, stats, language_bytes, files, json_file>>
    /\ PfIdle

\* lines 468-471: repos = self.fetch_repositories(); if not repos: return.
\* The server's list is shorter than a page: one request.
PfFetchRepositories ==
    /\ pc = "pf_repos"
    /\ LET evs == <<Ev("stage", "fetch_repositories"), Ev("request", "repos")>>
           got == IF run.repos_ok THEN run.server ELSE <<>>
           logs == IF run.repos_ok THEN <<LogLine("info")>>
                   ELSE <<LogLine("error"), LogLine("info")>>
       IN /\ repos' = got
          /\ IF ReposFailFast(got)
             THEN PfReturn(evs \o logs \o <<LogLine("error")>>)
             ELSE PfContinue(evs \o logs)
    /\ UNCHANGED <<user_data, stats, language_bytes, files, json_file>>
    /\ PfIdle

\* line 474: stats = self.calculate_stats(repos, user_data)
PfCalculateStats ==
    /\ pc = "pf_stats"
    /\ LET evs == <<Ev("stage", "calculate_stats")>>
       IN IF repos = <<>>
          THEN stats' = EmptyDict /\ PfContinue(evs)
          ELSE IF RootFirstError(repos) # "none"
          THEN UNCHANGED stats /\ PfRaise(RootFirstError(repos), evs)
          ELSE /\ stats' = RootStats(repos, user_data, tz)
               /\ PfContinue(evs)
    /\ UNCHANGED <<repos, user_data, language_bytes, files, json_file>>
    /\ PfIdle

\* line 477: language_bytes = self.fetch_language_stats(repos)
PfFetchLanguageStats ==
    /\ pc = "pf_langs"
    /\ LET loop == PfLangLoop(repos, run.outcomes, Len(repos))
       IN /\ language_bytes' = loop.bytes
          /\ PfContinue(<<Ev("stage", "fetch_language_stats")>> \o loop.events)
    /\ UNCHANGED <<repos, user_data, stats, files, json_file>>
    /\ PfIdle

\* the check of lines 204-206 left out
NoLanguageDataMut(lb) == FALSE
\* if not language_bytes: warning, return
NoLanguageData(lb) == lb = <<>>

\* line 480: self.create_language_chart(language_bytes)
PfCreateLanguageChart ==
    /\ pc = "pf_chart"
    /\ IF NoLanguageData(language_bytes)
       THEN /\ PfContinue(<<Ev("stage", "create_language_chart"),
                            LogLine("warning")>>)
            /\ UNCHANGED files
       ELSE PfWriteStage("create_language_chart", LanguageChartFiles,
                         <<LogLine("info")>>)
    /\ UNCHANGED <<repos, user_data, stats, language_bytes, json_file>>
    /\ PfIdle

\* line 481: self.create_activity_dashboard(stats)
PfCreateActivityDashboard ==
    /\ pc = "pf_dashboard"
    /\ IF "original_repos" \notin DOMAIN stats
       THEN /\ PfRaise("KeyError", <<Ev("stage", "create_activity_dashboard")>>)
            /\ UNCHANGED files
       ELSE PfWriteStage("create_activity_dashboard", DashboardFiles,
                         <<LogLine("info")>>)
    /\ UNCHANGED <<repos, user_data, stats, language_bytes, json_file>>
    /\ PfIdle

\* lines 484-486: the README text built and written
PfWriteReadme ==
    /\ pc = "pf_readme"
    /\ IF "user_data" \notin DOMAIN stats
       THEN /\ PfRaise("KeyError", <<Ev("stage", "write_readme")>>)
            /\ UNCHANGED files
       ELSE PfWriteStage("write_readme", <<ReadmeFile>>, <<>>)
    /\ UNCHANGED <<repos, user_data, stats, language_bytes, json_file>>
    /\ PfIdle

\* lines 489-497: self.save_stats_json(stats), then the closing messages
PfSaveStatsJson ==
    /\ pc = "pf_json"
    /\ LET evs == <<Ev("stage", "save_stats_json")>>
       IN IF ~(JsonKeys \subseteq DOMAIN stats)
          THEN /\ PfRaise("KeyError", evs)
               /\ UNCHANGED <<files, json_file>>
          ELSE IF run.io_fail = JsonFile
          THEN /\ PfRaise("OSError", evs)
               /\ UNCHANGED <<files, json_file>>
          ELSE /\ json_file' = StatsForJson(stats, tz)
               /\ files' = files \cup {JsonFile}
               /\ PfReturn(evs \o <<Ev("write", JsonFile), LogLine("info"),
                                    LogLine("info")>>)
    /\ UNCHANGED <<repos, user_data, stats, language_bytes>>
    /\ PfIdle

NextProfile ==
    \/ PfFetchUser
    \/ PfFetchRepositories
    \/ PfCalculateStats
    \/ PfFetchLanguageStats
    \/ PfCreateLanguageChart
    \/ PfCreateActivityDashboard
    \/ PfWriteReadme
    \/ PfSaveStatsJson

SpecProfile == InitProfile /\ [][NextProfile]_vars

(***************************************************************************)
(* main() of main.py, which imports GitHubProfileGenerator from            *)
(* utils/github_stats.py.  run holds the environment variables and the     *)
(* events of the run.                                                      *)
(***************************************************************************)
Unset == "unset"

FallbackUsername == "Ammar-nasr13"

\* the methods the class in utils/github_stats.py defines
UtilsMethods ==
    {"__init__", "fetch_user_data", "fetch_repositories",
     "fetch_language_stats", "calculate_stats", "_calculate_account_age",
     "_get_last_activity", "_get_color", "create_language_chart",
     "create_activity_dashboard", "create_readme_content"}

\* os.environ.get(name, default)
EnvGet(value, default) == IF value = Unset THEN default ELSE value

InitMain ==
    /\ pc = "main_env"
    /\ op = "main.main"
    /\ run \in {[env_username |-> u, env_token |-> t, user_ok |-> uo,
                 repos_ok |-> ro, username |-> Unset, token |-> Unset,
                 events |-> <<>>, stage_error |-> "none",
                 outcome |-> "running"] :
                   u \in {Unset, "octocat", "hubot", "monalisa"},
                   t \in {Unset, "ghp_a", "ghp_b"},
                   uo \in BOOLEAN, ro \in BOOLEAN}
    /\ files = {"output/github_stats.log"}
    /\ repos = <<>>
    /\ user_data = EmptyDict
    /\ tz = 0
    /\ language_bytes = <<>>
    /\ raised = "none"
    /\ stats = EmptyDict
    /\ age = 0
    /\ last = NA
    /\ percentages = <<>>
    /\ result = <<>>
    /\ main_languages = <<>>
    /\ json_file = EmptyDict
    /\ fetch = EmptyDict
    /\ lf = EmptyDict

MainIdle ==
    UNCHANGED <<op, repos, user_data, tz, language_bytes, stats, age, last,
                percentages, result, files, main_languages, json_file,
                fetch, lf>>

\* lines 11-16: USERNAME, TOKEN, the warning printed without a token
MainResolveEnv ==
    /\ pc = "main_env"
    /\ pc' = "main_construct"
    /\ run' = [run EXCEPT !.username = EnvGet(run.env_username, FallbackUsername),
                          !.token = EnvGet(run.env_token, Unset)]
    /\ UNCHANGED raised
    /\ MainIdle

\* line 19: generator = GitHubProfileGenerator(USERNAME, TOKEN)
MainConstruct ==
    /\ pc = "main_construct"
    /\ pc' = "main_call"
    /\ run' = [run EXCEPT !.events = Append(@, LogLine("info"))]
    /\ UNCHANGED raised
    /\ MainIdle

\* line 20: generator.generate_profile()
MainGenerateProfile ==
    /\ pc = "main_call"
    /\ IF "generate_profile" \in UtilsMethods
       THEN /\ pc' = "pf_user"
            /\ UNCHANGED <<run, raised>>
       ELSE /\ pc' = "main_done"
            /\ raised' = "AttributeError"
            /\ run' = [run EXCEPT !.outcome = "raised"]
    /\ MainIdle

NextMain ==
    \/ MainResolveEnv
    \/ MainConstruct
    \/ MainGenerateProfile

SpecMain == InitMain /\ [][NextMain]_vars

(***************************************************************************)
(* create_readme_content of the root class: the bars of the languages with *)
(* the most repositories.  stats is what calculate_stats returns for a     *)
(* repository list; stats.language_counts is its Counter.                  *)
(***************************************************************************)
TopLanguages == 5

BarWidth == 20

MaxReadmeLangs == 6

MaxCount == 3

\* the Counter of n languages with the counts b, its keys in the order of
\* AllNames or in the opposite order
ReadmeCounter(n, b, up) ==
    [i \in 1..n |->
        [key |-> AllNames[IF up THEN i ELSE n + 1 - i], num |-> b[i]]]

\* a repository list whose Counter is c: for each key in turn, as many
\* repositories of that language as its count
RECURSIVE ReposOfCounter(_)
ReposOfCounter(c) ==
    IF c = <<>> THEN <<>>
    ELSE IF Head(c).num = 0 THEN ReposOfCounter(Tail(c))
    ELSE <<Repo(FALSE, FALSE, Head(c).key, 0, 0, 5, Ts("naive", Now))>>
         \o ReposOfCounter(<<[key |-> Head(c).key, num |-> Head(c).num - 1]>>
                               \o Tail(c))

\* the first item with the largest count
MaxItem(items) ==
    CHOOSE i \in DOMAIN items :
        /\ \A j \in DOMAIN items : items[j].num <= items[i].num
        /\ \A j \in DOMAIN items : items[j].num = items[i].num => i <= j

Without(items, i) == [j \in 1..(Len(items) - 1) |->
                         IF j < i THEN items[j] ELSE items[j + 1]]

\* Counter.most_common(n): the n items with the largest counts, largest
\* first, equal counts in the Counter's order
RECURSIVE MostCommon(_, _)
MostCommon(items, n) ==
    IF n = 0 \/ items = <<>> THEN <<>>
    ELSE <<items[MaxItem(items)]>>
         \o MostCommon(Without(items, MaxItem(items)), n - 1)

RECURSIVE SumCounts(_)
SumCounts(items) ==
    IF items = <<>> THEN 0 ELSE Head(items).num + SumCounts(Tail(items))

\* the filled part rounded to the nearest glyph
BarLengthMut(count, total) ==
    IF total > 0 THEN (2 * BarWidth * count + total) \div (2 * total) ELSE 0
\* int((percentage / 100) * 20), percentage = count / total * 100 or 0
BarLength(count, total) ==
    IF total > 0 THEN (BarWidth * count) \div total ELSE 0

\* one line of the list: the language, its count and the two parts of its bar
Bar(item, total) ==
    [lang |-> item.key, count |-> item.num,
     filled |-> BarLength(item.num, total),
     empty |-> BarWidth - BarLength(item.num, total)]

InitReadme ==
    /\ pc = "ready_readme"
    /\ op = "none"
    /\ \E n \in 0..MaxReadmeLangs, up \in BOOLEAN :
          \E b \in [1..n -> 1..MaxCount] :
              repos = ReposOfCounter(ReadmeCounter(n, b, up))
    /\ stats = IF repos = <<>> THEN EmptyDict
               ELSE RootStats(repos, DefaultUser, 0)
    /\ user_data = DefaultUser
    /\ tz = 0
    /\ language_bytes = <<>>
    /\ raised = "none"
    /\ age = 0
    /\ last = NA
    /\ percentages = <<>>
    /\ result = <<>>
    /\ files = {}
    /\ main_languages = <<>>
    /\ json_file = EmptyDict
    /\ fetch = EmptyDict
    /\ lf = EmptyDict
    /\ run = EmptyDict

\* lines 339-341 and 385-390
RootCreateReadmeContent ==
    /\ pc = "ready_readme"
    /\ pc' = "done"
    /\ op' = "root.create_readme_content"
    /\ IF {"user_data", "language_counts", "total_repos", "total_stars",
           "total_forks", "followers", "total_size_kb", "account_age"}
              \subseteq DOMAIN stats
       THEN LET items == stats.language_counts
                top_languages == MostCommon(items, TopLanguages)
                total_lang_repos == SumCounts(items)
            IN /\ raised' = "none"
               /\ result' = [i \in DOMAIN top_languages |->
                                Bar(top_languages[i], total_lang_repos)]
       ELSE /\ raised' = "KeyError"      \* stats['user_data'] on {}
            /\ UNCHANGED result
    /\ UNCHANGED <<repos, user_data, tz, language_bytes, stats, age,
                   last, percentages, files, main_languages, json_file,
                   fetch, lf, run>>

NextReadme == RootCreateReadmeContent

SpecReadme == InitReadme /\ [][NextReadme]_vars

Init ==
    \/ InitStats
    \/ InitLang
    \/ InitFetch
    \/ InitLangFetch
    \/ InitProfile
    \/ InitMain
    \/ InitReadme

Next ==
    \/ NextStats
    \/ NextLang
    \/ NextFetch
    \/ NextLangFetch
    \/ NextProfile
    \/ NextMain
    \/ NextReadme

Spec == Init /\ [][Next]_vars

(***************************************************************************)
(* Properties.                                                             *)
(***************************************************************************)
CalcOps == {"utils.calculate_stats", "root.calculate_stats"}

AgeOps == {"utils._calculate_account_age", "root._calculate_account_age"}

LastOps == {"utils._get_last_activity", "root._get_last_activity"}

ChartOps == {"utils.create_language_chart", "root.create_language_chart"}

ScriptOps == {"get_languages_data_no_token", "get_languages_data"}

LangOps == ChartOps \cup ScriptOps

\* calculate_stats returned a dict that has the statistics keys
ReturnedSnapshot ==
    /\ pc = "done"
    /\ op \in CalcOps
    /\ raised = "none"
    /\ DOMAIN stats # {}

AgeOf(st) ==
    IF "account_age_days" \in DOMAIN st THEN st.account_age_days
    ELSE st.account_age

\* C1: every snapshot calculate_stats returns has
\* original_repos + forked_repos = total_repos.
C1_ForkPartition ==
    ReturnedSnapshot =>
        stats.original_repos + stats.forked_repos = stats.total_repos

C1_Witness ==
    /\ ReturnedSnapshot
    /\ op = "root.calculate_stats"
    /\ stats.original_repos = 1
    /\ stats.forked_repos = 1
    /\ stats.total_repos = 2

\* C2: calculate_stats on an empty repository list returns, without raising,
\* a snapshot with total_repos = 0 and last_active = "N/A".
C2_EmptyList ==
    (pc = "done" /\ op \in CalcOps /\ repos = <<>>) =>
        /\ raised = "none"
        /\ "total_repos" \in DOMAIN stats
        /\ stats.total_repos = 0
        /\ stats.last_active = NA

\* repositories updated no more than RecentDays before now
InWindow(rs) ==
    {i \in DOMAIN rs : Now - rs[i].updated_at.t <= RecentDays * TicksPerDay}

\* C3: when every updated_at has the API's form (UTC, ending in Z),
\* calculate_stats returns without raising and recent_activity is the number
\* of repositories updated inside the trailing 30-day window.
C3_RecentCount ==
    (/\ pc = "done"
     /\ op \in CalcOps
     /\ repos # <<>>
     /\ \A i \in DOMAIN repos : repos[i].updated_at.kind = "utc") =>
        /\ raised = "none"
        /\ "recent_activity" \in DOMAIN stats
        /\ stats.recent_activity = Cardinality(InWindow(repos))

\* C4: a malformed or missing timestamp never makes calculate_stats raise;
\* an unparseable created_at gives account age 0 in the snapshot returned.
C4_NoRaiseOnBadTimestamp ==
    (/\ pc = "done"
     /\ op \in CalcOps
     /\ \/ \E i \in DOMAIN repos : ~Parses(repos[i].updated_at)
        \/ ~Parses(user_data.created_at)) =>
        /\ raised = "none"
        /\ (DOMAIN stats # {} /\ ~Parses(user_data.created_at)) =>
               AgeOf(stats) = 0

\* C5: for a created_at of the API's form, _calculate_account_age returns
\* the whole days between created_at and now.
C5_AccountAge ==
    (pc = "done" /\ op \in AgeOps /\ user_data.created_at.kind = "utc") =>
        age = Days(Now - user_data.created_at.t)

ParseableIdx(rs) == {i \in DOMAIN rs : Parses(rs[i].updated_at)}

LatestParseable(rs) ==
    CHOOSE i \in ParseableIdx(rs) :
        \A j \in ParseableIdx(rs) : rs[j].updated_at.t <= rs[i].updated_at.t

\* C6: _get_last_activity returns the calendar date of the latest parseable
\* updated_at, and "N/A" only when no updated_at is parseable.
C6_LastActivity ==
    (pc = "done" /\ op \in LastOps) =>
        IF ParseableIdx(repos) = {} THEN last = NA
        ELSE last = DateOf(repos[LatestParseable(repos)].updated_at)

RECURSIVE SumPct(_)
SumPct(s) == IF s = <<>> THEN 0 ELSE Head(s).pct + SumPct(Tail(s))

\* within 0.01 of 100
Near100(x) == x - 100 * Scale <= Scale \div 100 /\ 100 * Scale - x <= Scale \div 100

PositiveTotal(lb) == \E i \in DOMAIN lb : lb[i].bytes > 0

\* C7 as stated: for every non-empty language-byte map, all-zero maps
\* included, the percentages computed sum to 100 within 0.01.  Stated for
\* the computations that complete, so that an escaping ZeroDivisionError
\* (C10) is not what refutes it.
C7_Original ==
    (/\ pc = "done"
     /\ op \in LangOps
     /\ language_bytes # <<>>
     /\ raised = "none") =>
        Near100(SumPct(percentages))

\* C7 amended: for every language-byte map with positive total the
\* percentage computation completes (the division does not raise), gives
\* one percentage per language, and the percentages sum to 100 within 0.01.
\* The AttributeError of the utils colour lookup comes after the
\* percentages are computed.
C7_SumTo100 ==
    (pc = "done" /\ op \in LangOps /\ PositiveTotal(language_bytes)) =>
        /\ raised \in {"none", "AttributeError"}
        /\ raised = "AttributeError" =>
              /\ op = "utils.create_language_chart"
              /\ \E i \in DOMAIN result : UtilsGetColor(result[i].lang) # "color"
        /\ Len(percentages) = Len(language_bytes)
        /\ Near100(SumPct(percentages))

C7_Witness ==
    /\ pc = "done"
    /\ op = "get_languages_data_no_token"
    /\ Len(language_bytes) = 3
    /\ \A i \in DOMAIN language_bytes : language_bytes[i].bytes = 1
    /\ SumPct(percentages) # 100 * Scale
    /\ Near100(SumPct(percentages))

\* C8: the percentages create_language_chart plots sum to 100, also for
\* maps with more than 10 languages.
C8_ReportedSumTo100 ==
    (pc = "done" /\ op \in ChartOps /\ raised = "none" /\ result # <<>>) =>
        Near100(SumPct(result))

RECURSIVE InputTotal(_)
InputTotal(lb) ==
    IF lb = <<>> THEN 0 ELSE Head(lb).bytes + InputTotal(Tail(lb))

\* insertion position of a language in the input map
Pos(lb, l) == CHOOSE i \in DOMAIN lb : lb[i].lang = l

\* p is 100 * b / total to the nearest unit
IsPct(p, b, total) ==
    /\ 2 * (p * total - 100 * Scale * b) <= total
    /\ 2 * (100 * Scale * b - p * total) <= total

\* e comes before f: larger percent, or equal percent and inserted earlier
Before(lb, e, f) ==
    \/ e.pct > f.pct
    \/ e.pct = f.pct /\ Pos(lb, e.lang) < Pos(lb, f.lang)

\* entries are languages of the map, none twice, each with its percent, in
\* descending order with ties in insertion order
WellOrdered(list, lb) ==
    /\ \A i \in DOMAIN list :
          /\ \E k \in DOMAIN lb : lb[k].lang = list[i].lang
          /\ IsPct(list[i].pct, lb[Pos(lb, list[i].lang)].bytes, InputTotal(lb))
    /\ \A i, j \in DOMAIN list : i < j => Before(lb, list[i], list[j])

EachOnce(list, lb) ==
    \A k \in DOMAIN lb :
        Cardinality({i \in DOMAIN list : list[i].lang = lb[k].lang}) = 1

\* C9 as stated: for every map with positive total the percentage list has
\* each language exactly once with percent 100 * bytes / total, in
\* descending order, equal percents in insertion order.
C9_Original ==
    (pc = "done" /\ op \in LangOps /\ PositiveTotal(language_bytes)) =>
        /\ EachOnce(result, language_bytes)
        /\ WellOrdered(result, language_bytes)

\* C9 amended: the list the scripts return has each language exactly once,
\* with percent 100 * bytes / total, in descending order, equal percents in
\* insertion order; the list create_language_chart plots is the first TopN
\* entries of that order (every language when the map has at most TopN).
C9_SortedPercentages ==
    (pc = "done" /\ op \in LangOps /\ PositiveTotal(language_bytes)) =>
        /\ WellOrdered(result, language_bytes)
        /\ op \in ScriptOps => EachOnce(result, language_bytes)
        /\ op \in ChartOps =>
              /\ Len(result) = IF Len(language_bytes) < TopN
                               THEN Len(language_bytes) ELSE TopN
              /\ \A k \in DOMAIN percentages :
                    \/ \E i \in DOMAIN result : result[i] = percentages[k]
                    \/ \A i \in DOMAIN result :
                          Before(language_bytes, result[i], percentages[k])

C9_Witness ==
    /\ pc = "done"
    /\ op = "get_languages_data_no_token"
    /\ language_bytes = <<Entry("Python", 800), Entry("JS", 200)>>
    /\ result = <<[lang |-> "Python", pct |-> 80 * Scale],
                  [lang |-> "JS", pct |-> 20 * Scale]>>

\* C10: when the byte counts total zero (empty map or all counts 0) the
\* percentage computation gives an empty result and does not raise.
C10_ZeroTotal ==
    (/\ pc = "done"
     /\ op \in LangOps
     /\ \A i \in DOMAIN language_bytes : language_bytes[i].bytes = 0) =>
        /\ raised = "none"
        /\ result = <<>>

\* the entries of a percentage dict whose percentage is below t
BelowIdx(data, t) == {i \in DOMAIN data : data[i].pct < t}

RECURSIVE SumBelow(_, _)
SumBelow(data, t) ==
    IF data = <<>> THEN 0
    ELSE (IF Head(data).pct < t THEN Head(data).pct ELSE 0)
         + SumBelow(Tail(data), t)

\* final is data folded at threshold t: when something was folded, the one
\* "Other" entry is the sum of the percentages below t, and no language
\* below t has an entry of its own
FoldedRight(data, final, t) ==
    /\ SumBelow(data, t) > 0 =>
          /\ Cardinality({j \in DOMAIN final : final[j].lang = "Other"}) = 1
          /\ \E j \in DOMAIN final :
                final[j] = PctEntry("Other", SumBelow(data, t))
    /\ \A i \in BelowIdx(data, t) : \A j \in DOMAIN final :
          final[j].lang = data[i].lang =>
              final[j] = PctEntry("Other", SumBelow(data, t))

\* C11: in create_languages_chart's folding the "Other" entry is the sum of
\* the percentages of exactly the languages below the threshold and none of
\* those languages has an entry of its own; the loop run at threshold 10 on
\* {Python: 90, JS: 5, CSS: 5} gives {Python: 90, Other: 10}.
C11_FoldOther ==
    (pc = "done" /\ op = "create_languages_chart") =>
        /\ FoldedRight(result, main_languages, FoldThreshold)
        /\ Fold(<<PctEntry("Python", 90 * Scale), PctEntry("JS", 5 * Scale),
                  PctEntry("CSS", 5 * Scale)>>, 10 * Scale)
           = <<PctEntry("Python", 90 * Scale), PctEntry("Other", 10 * Scale)>>

C11_Witness ==
    /\ pc = "done"
    /\ op = "create_languages_chart"
    /\ language_bytes = <<Entry("Python", 800), Entry("JS", 1), Entry("CSS", 1)>>
    /\ Len(main_languages) = 2
    /\ main_languages[1].lang = "Python"
    /\ main_languages[2].lang = "Other"
    /\ main_languages[2].pct = result[2].pct + result[3].pct
    /\ main_languages[2].pct > result[2].pct

\* windows in days; RecentDays is the one the code uses
Windows == {0, 7, RecentDays, 60}

\* C12: for the repository list and the clock of a calculate_stats call, the
\* recent-activity count is monotonic in the window: for w1 <= w2 the count
\* for w1 is at most the count for w2 (the count the call returned is the one
\* for the window of 30 days).
C12_WindowMonotonic ==
    /\ (pc = "done" /\ op = "utils.calculate_stats") =>
          /\ stats.recent_activity = UtilsRecentActivityIn(repos, RecentDays)
          /\ \A w1, w2 \in Windows : w1 <= w2 =>
                UtilsRecentActivityIn(repos, w1)
                    <= UtilsRecentActivityIn(repos, w2)
    /\ (/\ pc = "done"
        /\ op = "root.calculate_stats"
        /\ raised = "none"
        /\ stats # EmptyDict) =>
          /\ stats.recent_activity = RootRecentActivityIn(repos, tz, RecentDays)
          /\ \A w1, w2 \in Windows : w1 <= w2 =>
                RootRecentActivityIn(repos, tz, w1)
                    <= RootRecentActivityIn(repos, tz, w2)

C12_Witness ==
    /\ pc = "done"
    /\ op = "utils.calculate_stats"
    /\ Len(repos) = 2
    /\ UtilsRecentActivityIn(repos, 7) = 1
    /\ stats.recent_activity = 2
    /\ UtilsRecentActivityIn(repos, 7) < UtilsRecentActivityIn(repos, RecentDays)

\* the count a Counter holds for l, 0 for a key it does not hold
CounterGet(c, l) ==
    IF l \in CounterKeys(c)
    THEN c[CHOOSE i \in DOMAIN c : c[i].key = l].num
    ELSE 0

\* C13: the document save_stats_json wrote, parsed back, has total_repos,
\* total_stars, total_forks, followers, following and the account age of the
\* snapshot, and a language_counts mapping with the snapshot's keys and
\* counts.
C13_JsonRoundTrip ==
    (pc = "saved" /\ op = "root.save_stats_json" /\ raised = "none") =>
        LET parsed == JsonLoad(json_file)
        IN /\ "github_stats.json" \in files
           /\ parsed["total_repos"] = stats["total_repos"]
           /\ parsed["total_stars"] = stats["total_stars"]
           /\ parsed["total_forks"] = stats["total_forks"]
           /\ parsed["followers"] = stats["followers"]
           /\ parsed["following"] = stats["following"]
           /\ parsed["account_age_days"] = stats["account_age"]
           /\ DOMAIN parsed["language_counts"]
                 = CounterKeys(stats["language_counts"])
           /\ \A l \in CounterKeys(stats["language_counts"]) :
                 parsed["language_counts"][l]
                     = CounterGet(stats["language_counts"], l)

C13_Witness ==
    /\ pc = "saved"
    /\ op = "root.save_stats_json"
    /\ raised = "none"
    /\ stats["total_repos"] = 2
    /\ stats["total_stars"] = 3
    /\ stats["total_forks"] = 2
    /\ stats["language_counts"] = <<[key |-> "JavaScript", num |-> 1],
                                    [key |-> "Python", num |-> 1]>>
    /\ json_file[8].obj[1].key = "JavaScript"
    /\ JsonLoad(json_file)["language_counts"]["JavaScript"] = 1
    /\ JsonLoad(json_file)["total_forks"] = 2

\* the pages 1..k of the server's list, one after the other
RECURSIVE Pages(_, _)
Pages(n, k) == IF k = 0 THEN <<>> ELSE Pages(n, k - 1) \o ServerPage(n, k)

\* the requests sent so far are those for pages 1, 2, 3, ... with page size
\* 100, each once and in order
InPageOrder(requests) ==
    \A i \in DOMAIN requests :
        requests[i].page = i /\ requests[i].per_page = PerPage

\* C14: when no request fails, fetch_repositories requests pages 1, 2, 3, ...
\* with page size 100, stops after the first page that is empty or shorter
\* than 100, and returns the pages' repositories in order, none twice and
\* none left out.
C14_Pagination ==
    /\ pc \in {"fetch_loop", "fetch_done"} =>
          /\ InPageOrder(fetch.requests)
          /\ pc = "fetch_loop" =>
                \A i \in DOMAIN fetch.requests :
                    Len(ServerPage(fetch.total, i)) = PerPage
    /\ (pc = "fetch_done" /\ fetch.failed = 0) =>
          LET k == Len(fetch.requests)
          IN /\ k >= 1
             /\ Len(ServerPage(fetch.total, k)) < PerPage
             /\ \A i \in 1..(k - 1) : Len(ServerPage(fetch.total, i)) = PerPage
             /\ fetch.repos = Pages(fetch.total, k)
             /\ fetch.repos = [i \in 1..fetch.total |-> i]
             /\ raised = "none"

C14_Witness ==
    /\ pc = "fetch_done"
    /\ fetch.failed = 0
    /\ fetch.total = 2 * PerPage
    /\ Len(fetch.requests) = 3
    /\ Len(fetch.repos) = 2 * PerPage
    /\ fetch.repos[PerPage + 1] = PerPage + 1

\* C15: when the request for page k fails, fetch_repositories sends no
\* further request, raises nothing and returns the repositories of pages
\* 1..k-1.
C15_FailureStops ==
    (pc = "fetch_done" /\ fetch.failed > 0) =>
        /\ Len(fetch.requests) = fetch.failed
        /\ InPageOrder(fetch.requests)
        /\ raised = "none"
        /\ fetch.repos = Pages(fetch.total, fetch.failed - 1)

C15_Witness ==
    /\ pc = "fetch_done"
    /\ fetch.failed = 2
    /\ fetch.total > PerPage
    /\ Len(fetch.requests) = 2
    /\ Len(fetch.repos) = PerPage

\* the byte count of language l in a body
BodyBytes(body, l) ==
    IF \E i \in DOMAIN body : body[i].lang = l
    THEN body[CHOOSE i \in DOMAIN body : body[i].lang = l].bytes
    ELSE 0

\* the repositories whose bytes count: not a fork, request answered with 200
Counted(rs) == {i \in DOMAIN rs : ~rs[i].fork /\ rs[i].outcome = "ok"}

RECURSIVE SumBytes(_, _, _)
SumBytes(rs, idx, l) ==
    IF idx = {} THEN 0
    ELSE LET i == CHOOSE i \in idx : TRUE
         IN BodyBytes(rs[i].langs, l) + SumBytes(rs, idx \ {i}, l)

\* C16: fetch_language_stats returns, without raising, the map whose value for
\* each language is the sum of its byte counts over exactly the non-fork
\* repositories whose request was answered with status 200; forks, failed
\* requests and other statuses add nothing.
C16_LanguageSums ==
    pc = "lf_done" =>
        /\ raised = "none"
        /\ IsDict(language_bytes)
        /\ \A i \in DOMAIN language_bytes :
              \E j \in Counted(lf.repos) :
                  BodyBytes(lf.repos[j].langs, language_bytes[i].lang) > 0
        /\ \A k \in DOMAIN AllNames :
              GetBytes(language_bytes, AllNames[k])
                  = SumBytes(lf.repos, Counted(lf.repos), AllNames[k])

C16_Witness ==
    /\ pc = "lf_done"
    /\ Len(lf.repos) = 3
    /\ lf.repos[1] = LfRepo(FALSE, "ok", <<Entry("Python", 2), Entry("JavaScript", 1)>>)
    /\ lf.repos[2].fork
    /\ lf.repos[3] = LfRepo(FALSE, "ok", <<Entry("Python", 1)>>)
    /\ language_bytes = <<Entry("Python", 3), Entry("JavaScript", 1)>>

\* the non-fork repositories among the first n, in list order
RECURSIVE NonForks(_, _)
NonForks(rs, n) ==
    IF n = 0 THEN <<>>
    ELSE IF rs[n].fork THEN NonForks(rs, n - 1)
    ELSE Append(NonForks(rs, n - 1), n)

\* C17: fetch_language_stats sends one languages request per non-fork
\* repository, one after the other in list order, and none for a fork; a
\* failed request does not end the batch: every later non-fork repository is
\* still requested.
C17_OneRequestEach ==
    /\ pc = "lf_loop" => lf.requests = NonForks(lf.repos, lf.i - 1)
    /\ pc = "lf_done" => lf.requests = NonForks(lf.repos, Len(lf.repos))

C17_Witness ==
    /\ pc = "lf_done"
    /\ Len(lf.repos) = 3
    /\ lf.repos[1].outcome = "error" /\ ~lf.repos[1].fork
    /\ lf.repos[2].fork
    /\ ~lf.repos[3].fork
    /\ lf.requests = <<1, 3>>

InProfile == op = "root.generate_profile"

\* the order of the stages in generate_profile
StageOrder ==
    <<"fetch_user", "fetch_repositories", "calculate_stats",
      "fetch_language_stats", "create_language_chart",
      "create_activity_dashboard", "write_readme", "save_stats_json">>

\* the stages started so far, in the order they started
StagesOf(evs) ==
    LET st == SelectSeq(evs, LAMBDA e : e.k = "stage")
    IN [i \in DOMAIN st |-> st[i].v]

IsPrefix(a, b) == Len(a) <= Len(b) /\ \A i \in DOMAIN a : a[i] = b[i]

RequestsOf(evs) ==
    LET rq == SelectSeq(evs, LAMBDA e : e.k = "request")
    IN [i \in DOMAIN rq |-> rq[i].v]

\* the events that write a chart, the README or the JSON snapshot
ReportWrites(evs) == {i \in DOMAIN evs : evs[i].k = "write"}

\* the events that write any output file, the log file among them
AllWrites(evs) == {i \in DOMAIN evs : evs[i].k \in {"write", "log"}}

RequestIdx(evs) == {i \in DOMAIN evs : evs[i].k = "request"}

\* the writes of w come after every request, and the JSON snapshot, once
\* written, is the last of them
AfterFetches(evs, w) ==
    /\ \A i \in w : \A j \in RequestIdx(evs) : j < i
    /\ \A i \in w : evs[i] = Ev("write", JsonFile) => \A j \in w : j <= i

\* C18 as stated: the stages of generate_profile start in the fixed order,
\* no output file is written before all fetches have completed, and the JSON
\* snapshot is written last.  The log file is an output file that is written
\* from the first statement to the last.
C18_Original ==
    InProfile =>
        /\ IsPrefix(StagesOf(run.events), StageOrder)
        /\ AfterFetches(run.events, AllWrites(run.events))

\* C18: the stages of generate_profile start in the fixed order, each after
\* the one before it finished; no chart, README or JSON file is written
\* before all fetches have completed, and the JSON snapshot is the last of
\* these files; a run that returns after the last stage went through all
\* eight.
C18_StageOrder ==
    InProfile =>
        /\ IsPrefix(StagesOf(run.events), StageOrder)
        /\ AfterFetches(run.events, ReportWrites(run.events))
        /\ JsonFile \in files => StagesOf(run.events) = StageOrder

C18_Witness ==
    /\ InProfile
    /\ pc = "pf_done"
    /\ run.outcome = "returned"
    /\ StagesOf(run.events) = StageOrder
    /\ RequestsOf(run.events) = <<"user", "repos", "languages", "languages">>
    /\ ReportFiles \subseteq files
    /\ run.events[Len(run.events) - 2] = Ev("write", JsonFile)

\* C19: when fetch_user_data returns an empty record, generate_profile sends
\* no repository or language request; when the user record is not empty and
\* fetch_repositories returns an empty list, it sends no language request; in
\* both cases it writes no chart, README or JSON file and returns without
\* raising.
C19_FailFast ==
    (InProfile /\ pc = "pf_done") =>
        /\ user_data = EmptyDict =>
              /\ RequestsOf(run.events) = <<"user">>
              /\ files \cap ReportFiles = {}
              /\ ReportWrites(run.events) = {}
              /\ run.outcome = "returned"
              /\ raised = "none"
        /\ (user_data # EmptyDict /\ repos = <<>>) =>
              /\ RequestsOf(run.events) = <<"user", "repos">>
              /\ files \cap ReportFiles = {}
              /\ ReportWrites(run.events) = {}
              /\ run.outcome = "returned"
              /\ raised = "none"

C19_Witness ==
    /\ InProfile
    /\ pc = "pf_done"
    /\ user_data = DefaultUser
    /\ run.repos_ok
    /\ run.server = <<>>
    /\ repos = <<>>
    /\ StagesOf(run.events) = <<"fetch_user", "fetch_repositories">>
    /\ run.outcome = "returned"

\* the files the run has written so far
WrittenFiles(evs) == {evs[i].v : i \in ReportWrites(evs)}

\* C20: when a stage of generate_profile raises, the exception is logged and
\* raised again to the caller, no later stage runs, and the files the
\* earlier stages wrote stay on disk as they are.
C20_LoggedAndReraised ==
    /\ [](InProfile /\ run.stage_error # "none" =>
            /\ pc = "pf_done"
            /\ run.outcome = "raised"
            /\ raised = run.stage_error
            /\ run.events[Len(run.events)] = LogLine("error")
            /\ files = {LogFile} \cup WrittenFiles(run.events))
    /\ [][InProfile /\ run.stage_error # "none" => UNCHANGED vars]_vars

C20_Witness ==
    /\ InProfile
    /\ run.stage_error = "OSError"
    /\ raised = "OSError"
    /\ run.io_fail = ReadmeFile
    /\ StagesOf(run.events)[Len(StagesOf(run.events))] = "write_readme"
    /\ files = {LogFile} \cup Range(LanguageChartFiles) \cup Range(DashboardFiles)

\* the stage has started in the run
Started(stage) ==
    \E i \in DOMAIN run.events : run.events[i] = Ev("stage", stage)

LastStage == StagesOf(run.events)[Len(StagesOf(run.events))]

\* C21: when fetch_language_stats returned an empty map for a non-empty
\* repository list, generate_profile writes no language_distribution image,
\* the chart stage raises nothing, and the run goes on through the dashboard,
\* the README and the JSON snapshot and returns (unless one of their writes
\* fails).
C21_EmptyLanguagesSkipChart ==
    (/\ InProfile
     /\ Started("fetch_language_stats")
     /\ repos # <<>>
     /\ language_bytes = <<>>) =>
        /\ files \cap Range(LanguageChartFiles) = {}
        /\ run.stage_error # "none" => LastStage # "create_language_chart"
        /\ (/\ pc = "pf_done"
            /\ run.io_fail \notin Range(DashboardFiles) \cup {ReadmeFile, JsonFile})
           => /\ run.outcome = "returned"
              /\ raised = "none"
              /\ StagesOf(run.events) = StageOrder
              /\ files = {LogFile} \cup Range(DashboardFiles)
                            \cup {ReadmeFile, JsonFile}

C21_Witness ==
    /\ InProfile
    /\ pc = "pf_done"
    /\ Len(repos) = 2
    /\ ~repos[1].fork /\ run.outcomes[1] = "error"
    /\ ~repos[2].fork /\ run.outcomes[2] = "non200"
    /\ language_bytes = <<>>
    /\ run.outcome = "returned"
    /\ Started("create_language_chart")
    /\ JsonFile \in files
    /\ files \cap Range(LanguageChartFiles) = {}

\* C22: every output file of a run (report, JSON snapshot, log file, chart
\* images) is inside the one fixed output directory.
C22_OneOutputDir ==
    (InProfile /\ pc = "pf_done") => \A f \in files : DirOf(f) = OutputDir

\* C23: main() of main.py starts the pipeline on the class it imports: the
\* fetch-user stage is reached, and when the user and the repository
\* requests succeed the stages up to the writing of the README are run.
C23_MainRunsPipeline ==
    (op = "main.main" /\ pc = "main_done") =>
        /\ raised = "none"
        /\ Started("fetch_user")
        /\ (run.user_ok /\ run.repos_ok) => Started("write_readme")

\* C24: a repository is counted in recent_activity exactly when
\* now - updated_at <= 30 days, measured exactly: one updated 30 days before
\* now is counted, one updated 30 days and 12 hours before now is not.
\* Stated for timestamps without a zone, which both classes can compare.
C24_ExactBoundary ==
    (/\ pc = "done"
     /\ op \in CalcOps
     /\ raised = "none"
     /\ repos # <<>>
     /\ \A i \in DOMAIN repos : repos[i].updated_at.kind = "naive") =>
        /\ "recent_activity" \in DOMAIN stats
        /\ stats.recent_activity =
              Cardinality({i \in DOMAIN repos :
                  Now - repos[i].updated_at.t <= RecentDays * TicksPerDay})

\* C25: create_readme_content lists at most 5 languages, those with the most
\* repositories, in descending order of count, and the bar of each has 20
\* glyphs of which floor(20 * count / total) are filled, total being the
\* number of repositories with a language.
C25_TopLanguageBars ==
    (pc = "done" /\ op = "root.create_readme_content" /\ raised = "none") =>
        LET counts == [l \in CounterKeys(stats.language_counts) |->
                          CounterGet(stats.language_counts, l)]
            total == Cardinality({i \in DOMAIN repos :
                                     repos[i].language # NoLanguage})
            listed == {result[i].lang : i \in DOMAIN result}
        IN /\ Len(result) <= 5
           /\ Len(result) = Min(5, Cardinality(DOMAIN counts))
           /\ Cardinality(listed) = Len(result)
           /\ \A i \in DOMAIN result :
                 /\ result[i].lang \in DOMAIN counts
                 /\ result[i].count = counts[result[i].lang]
                 /\ result[i].filled + result[i].empty = 20
                 /\ result[i].filled * total <= 20 * result[i].count
                 /\ 20 * result[i].count < (result[i].filled + 1) * total
           /\ \A i, j \in DOMAIN result :
                 i < j => result[i].count >= result[j].count
           /\ \A l \in DOMAIN counts \ listed : \A i \in DOMAIN result :
                 counts[l] <= result[i].count

C25_Witness ==
    /\ pc = "done"
    /\ op = "root.create_readme_content"
    /\ raised = "none"
    /\ Len(stats.language_counts) = 6
    /\ CounterGet(stats.language_counts, "Python") = 1
    /\ CounterGet(stats.language_counts, "C") = 3
    /\ CounterGet(stats.language_counts, "Java") = 2
    /\ Len(result) = 5
    /\ result[1].lang = "C"
    /\ result[1].filled = (20 * 3) \div Len(repos)
    /\ result[1].filled > 0
    /\ \A i \in DOMAIN result : result[i].lang # "Python"

\* C26: in create_languages_chart's folding every input language at or above
\* the threshold is in the final list with its own input percentage, and the
\* final percentages sum to the same total as the input percentages, also
\* when a language of the input is named "Other".
C26_FoldKeepsTotal ==
    (pc = "done" /\ op = "create_languages_chart") =>
        /\ \A i \in DOMAIN result :
              result[i].pct >= FoldThreshold =>
                  \E j \in DOMAIN main_languages : main_languages[j] = result[i]
        /\ SumPct(main_languages) = SumPct(result)

\* C27: after a run of generate_profile that returned and wrote the README,
\* every local chart file the README refers to was written by that run.
C27_ReferencedChartsWritten ==
    (/\ InProfile
     /\ pc = "pf_done"
     /\ run.outcome = "returned"
     /\ ReadmeFile \in WrittenFiles(run.events)) =>
        ReadmeReferences \subseteq WrittenFiles(run.events)

\* the most requests a list of n repositories needs
RequestBound(n) == n \div PerPage + 1

\* C28: fetch_repositories terminates for every number n of repositories and
\* every failing request, after at most floor(n / 100) + 1 requests; when n
\* is a positive multiple of 100 and no request fails it sends exactly
\* n / 100 + 1 requests, the last of which returns an empty page.
C28_Terminates ==
    /\ <>(pc = "fetch_done")
    /\ [](pc \in {"fetch_loop", "fetch_done"} =>
            Len(fetch.requests) <= RequestBound(fetch.total))
    /\ []((/\ pc = "fetch_done"
           /\ fetch.failed = 0
           /\ fetch.total > 0
           /\ fetch.total % PerPage = 0) =>
            /\ Len(fetch.requests) = fetch.total \div PerPage + 1
            /\ ServerPage(fetch.total, Len(fetch.requests)) = <<>>)

C28_Witness ==
    /\ pc = "fetch_done"
    /\ fetch.failed = 0
    /\ fetch.total = PerPage
    /\ Len(fetch.requests) = 2
    /\ fetch.requests[2].page = 2
    /\ ServerPage(fetch.total, 2) = <<>>
    /\ Len(fetch.repos) = PerPage

====
